---------------------------- MODULE Spec2Model ----------------------------
(***************************************************************************)
(* The arithmetic-expression front end of src/src/main.cpp: the Scanner    *)
(* (peekToken / nextToken / setBuffer), the recursive-descent parser       *)
(* (parsePrimary, parseMultiplicativeExpression, parseAdditiveExpression,  *)
(* parseExpression), the tree evaluator and the tree destructor.           *)
(*                                                                         *)
(* Characters are the int values of `typedef int Character` (ASCII codes); *)
(* a string is a sequence of them and C's 0-based index i is element i+1.  *)
(***************************************************************************)
EXTENDS Integers, Sequences, FiniteSets, TLC

-----------------------------------------------------------------------------
(* Token types (enum TokenType) and tree types (enum TreeType).            *)
TOKEN_TYPE_NULL == 0
TOKEN_TYPE_INTEGER == 1
TOKEN_TYPE_ADD == 2
TOKEN_TYPE_MINUS == 3
TOKEN_TYPE_MUL == 4
TOKEN_TYPE_LPAREN == 5
TOKEN_TYPE_RPAREN == 6

TREE_TYPE_LITERAL == 1
TREE_TYPE_BINARY_EXPRESSION == 3

(* nullptr: no node has id 0.                                              *)
nullptr == 0

-----------------------------------------------------------------------------
(* Bounds of the model.                                                    *)
MaxScanLen == 3
MaxPeeks == 3
MaxInputLen == 3
MaxOps == 3
MaxTwinLen == 2

-----------------------------------------------------------------------------
(* Character classes.                                                      *)

\* beginsWithName: 'a'..'z', 'A'..'Z', '_'
beginsWithName(c) == (c >= 97 /\ c <= 122) \/ (c >= 65 /\ c <= 90) \/ c = 95

\* beginsWithDigit: '0'..'9'
beginsWithDigit(c) == c >= 48 /\ c <= 57

isIdentifier(c) == beginsWithName(c) \/ beginsWithDigit(c)

\* std::isprint in the "C" locale: 0x20..0x7e
isprint(c) == c >= 32 /\ c <= 126

\* std::isspace in the "C" locale: ' ', \t, \n, \v, \f, \r
isspace(c) == c = 32 \/ (c >= 9 /\ c <= 13)

-----------------------------------------------------------------------------
(* The Scanner.  A scanner value is a record                               *)
(*   [buffer, currentCharacterIndex, nextCharacterIndex].                  *)

\* Scanner::getCharacter at index i of buf
getCharacter(buf, i) == IF i >= Len(buf) THEN 0 ELSE buf[i + 1]

\* The global `Scanner s;` has static storage: every member is zero.
ScannerInit == [buffer |-> << >>, currentCharacterIndex |-> 0,
                nextCharacterIndex |-> 0]

\* Scanner::setBuffer: nextCharacterIndex is left as it was.
setBuffer(sc, buf) == [sc EXCEPT !.currentCharacterIndex = 0, !.buffer = buf]

\* while (std::isspace(c)) { incrementPosition(); c = getCharacter(); }
RECURSIVE SkipSpace(_, _)
SkipSpace(buf, i) ==
    IF isspace(getCharacter(buf, i)) THEN SkipSpace(buf, i + 1) ELSE i

\* while (beginsWithDigit(c)) { t.name += c; incrementPosition(); ... }
RECURSIVE SkipDigits(_, _)
SkipDigits(buf, i) ==
    IF beginsWithDigit(getCharacter(buf, i)) THEN SkipDigits(buf, i + 1) ELSE i

\* the test of `if (isIdentifier(c) || c == '.')` and of the loop under it
isTrailing(c) == isIdentifier(c) \/ c = 46

\* while (isIdentifier(c) || c == '.') { incrementPosition(); ... }
RECURSIVE SkipTrailing(_, _)
SkipTrailing(buf, i) ==
    IF isTrailing(getCharacter(buf, i)) THEN SkipTrailing(buf, i + 1) ELSE i

\* the switch (c) of peekToken: the token type of a one-character token
OperatorType(c) ==
    CASE c = 43 -> TOKEN_TYPE_ADD
      [] c = 45 -> TOKEN_TYPE_MINUS
      [] c = 42 -> TOKEN_TYPE_MUL
      [] c = 40 -> TOKEN_TYPE_LPAREN
      [] c = 41 -> TOKEN_TYPE_RPAREN
      [] OTHER  -> TOKEN_TYPE_NULL

\* a peekToken that does not put currentCharacterIndex back
RestoreNoneM(previousCharacterIndex, scanned) == scanned

\* currentCharacterIndex = previousCharacterIndex;  (end of peekToken)
RestorePosition(previousCharacterIndex, scanned) == previousCharacterIndex

\* a peekToken that does not skip the trailing characters
PastDigitsOnlyM(buf, i) == i

\* the position after the trailing characters of an integer
PastInteger(buf, i) ==
    IF isTrailing(getCharacter(buf, i)) THEN SkipTrailing(buf, i) ELSE i

(* Scanner::peekToken.  The result is the token returned (t), the scanner  *)
(* afterwards (sc) and the lines printed (out).  The two early returns     *)
(* leave nextCharacterIndex untouched and return a token whose name is     *)
(* empty.                                                                  *)
peekToken(sc) ==
    LET buf == sc.buffer
        previousCharacterIndex == sc.currentCharacterIndex
        c0 == getCharacter(buf, previousCharacterIndex)
    IN
    IF c0 = 0 THEN
        [t |-> [name |-> << >>, type |-> TOKEN_TYPE_NULL], sc |-> sc,
         out |-> << >>]
    ELSE IF ~isprint(c0) THEN
        [t |-> [name |-> << >>, type |-> TOKEN_TYPE_NULL], sc |-> sc,
         out |-> << "Bad lexical analysis stream" >>]
    ELSE
        LET i1 == SkipSpace(buf, previousCharacterIndex)
            c == getCharacter(buf, i1)
        IN
        IF beginsWithDigit(c) THEN
            LET i2 == SkipDigits(buf, i1)
                i3 == PastInteger(buf, i2)
            IN
            [t |-> [name |-> SubSeq(buf, i1 + 1, i2),
                    type |-> TOKEN_TYPE_INTEGER],
             sc |-> [sc EXCEPT
                       !.nextCharacterIndex = i3,
                       !.currentCharacterIndex =
                           RestorePosition(previousCharacterIndex, i3)],
             out |-> IF isTrailing(getCharacter(buf, i2))
                     THEN << "skipping trailing characters for integer" >>
                     ELSE << >>]
        ELSE
            LET ty == OperatorType(c)
                i2 == IF ty = TOKEN_TYPE_NULL THEN i1 ELSE i1 + 1
            IN
            [t |-> [name |-> << c >>, type |-> ty],
             sc |-> [sc EXCEPT
                       !.nextCharacterIndex = i2,
                       !.currentCharacterIndex =
                           RestorePosition(previousCharacterIndex, i2)],
             out |-> IF ty = TOKEN_TYPE_NULL
                     THEN << "Unexpected lexical analysis character" >>
                     ELSE << >>]

\* a nextToken that does not move currentCharacterIndex
NextTokenStayM(sc) == sc

\* Scanner::nextToken
nextToken(sc) == [sc EXCEPT !.currentCharacterIndex = sc.nextCharacterIndex]


-----------------------------------------------------------------------------
(* std::uint64_t.  A value is its 8 bytes, least significant first, so     *)
(* that sums, differences and products are taken modulo 2^64.              *)
U64Bytes == 8
U64Base == 256

RECURSIVE BytesOf(_, _)
BytesOf(n, k) ==
    IF k = 0 THEN << >> ELSE << n % U64Base >> \o BytesOf(n \div U64Base, k - 1)

\* the std::uint64_t of a natural number below 2^31
U64(n) == BytesOf(n, U64Bytes)

RECURSIVE AddFrom(_, _, _, _)
AddFrom(a, b, i, carry) ==
    IF i > U64Bytes THEN << >>
    ELSE LET sum == a[i] + b[i] + carry
         IN << sum % U64Base >> \o AddFrom(a, b, i + 1, sum \div U64Base)

\* a + b
U64Add(a, b) == AddFrom(a, b, 1, 0)

\* -a (two's complement)
U64Neg(a) == U64Add([i \in 1..U64Bytes |-> U64Base - 1 - a[i]], U64(1))

\* a - b
U64Sub(a, b) == U64Add(a, U64Neg(b))

RECURSIVE ColumnSum(_, _, _, _)
ColumnSum(a, b, k, i) ==
    IF i > k THEN 0 ELSE a[i] * b[k + 1 - i] + ColumnSum(a, b, k, i + 1)

RECURSIVE MulFrom(_, _, _, _)
MulFrom(a, b, k, carry) ==
    IF k > U64Bytes THEN << >>
    ELSE LET tot == ColumnSum(a, b, k, 1) + carry
         IN << tot % U64Base >> \o MulFrom(a, b, k + 1, tot \div U64Base)

\* a * b
U64Mul(a, b) == MulFrom(a, b, 1, 0)

RECURSIVE AtollFrom(_, _, _)
AtollFrom(name, i, acc) ==
    IF i > Len(name) \/ ~beginsWithDigit(name[i]) THEN acc
    ELSE AtollFrom(name, i + 1,
                   U64Add(U64Mul(acc, U64(10)), U64(name[i] - 48)))

(* std::atoll(name) converted to std::uint64_t: the value of the leading   *)
(* decimal digits, 0 when there are none.  (A literal's name is a digit    *)
(* run; a run beyond LLONG_MAX, 19 digits or more, is outside atoll's      *)
(* defined range and outside the lengths modelled here.)                   *)
atoll(name) == AtollFrom(name, 1, U64(0))

-----------------------------------------------------------------------------
(* Trees.  A Tree * is the index of the node in heap, nullptr is 0.        *)

\* createLiteralTree
createLiteralTree(token) == [treeType |-> TREE_TYPE_LITERAL, token |-> token]

\* a createBinaryExpressionTree that stores the operands the other way round
CreateBinarySwappedM(operatorType, left, right) ==
    [treeType |-> TREE_TYPE_BINARY_EXPRESSION, operatorType |-> operatorType,
     left |-> right, right |-> left]

\* createBinaryExpressionTree
createBinaryExpressionTree(operatorType, left, right) ==
    [treeType |-> TREE_TYPE_BINARY_EXPRESSION, operatorType |-> operatorType,
     left |-> left, right |-> right]

matchToken(t, type) == t.type = type

\* a matchTerm that also accepts a token of type TOKEN_TYPE_NULL
MatchTermOrNullM(t) ==
    t.type = TOKEN_TYPE_ADD \/ t.type = TOKEN_TYPE_MINUS
    \/ t.type = TOKEN_TYPE_NULL

matchTerm(t) == t.type = TOKEN_TYPE_ADD \/ t.type = TOKEN_TYPE_MINUS

matchFactor(t) == t.type = TOKEN_TYPE_MUL

\* a switch whose difference is b - a
BinaryResultReversedM(operatorType, a, b) ==
    CASE operatorType = TOKEN_TYPE_ADD -> U64Add(a, b)
      [] operatorType = TOKEN_TYPE_MINUS -> U64Sub(b, a)
      [] operatorType = TOKEN_TYPE_MUL -> U64Mul(a, b)
      [] OTHER -> U64(0)

\* the inner switch of evaluateConstantExpressionTree (result starts as 0)
BinaryResult(operatorType, a, b) ==
    CASE operatorType = TOKEN_TYPE_ADD -> U64Add(a, b)
      [] operatorType = TOKEN_TYPE_MINUS -> U64Sub(a, b)
      [] operatorType = TOKEN_TYPE_MUL -> U64Mul(a, b)
      [] OTHER -> U64(0)

(* evaluateConstantExpressionTree.  The parser builds literal and binary   *)
(* nodes only, so the unary case has no node to act on.                    *)
RECURSIVE evaluateConstantExpressionTree(_, _)
evaluateConstantExpressionTree(h, expr) ==
    IF expr = nullptr THEN U64(0)
    ELSE IF h[expr].treeType = TREE_TYPE_BINARY_EXPRESSION THEN
        BinaryResult(h[expr].operatorType,
                     evaluateConstantExpressionTree(h, h[expr].left),
                     evaluateConstantExpressionTree(h, h[expr].right))
    ELSE IF h[expr].treeType = TREE_TYPE_LITERAL THEN
        atoll(h[expr].token.name)
    ELSE U64(0)

RECURSIVE destroyExpressionTreeWithChildren(_, _)

\* a destructor that deletes the node and not its children
DestroyRootOnlyM(h, expr) == IF expr = nullptr THEN << >> ELSE << expr >>

\* a destructor that leaves out the right subtree of a binary node
DestroyLeftOnlyM(h, expr) ==
    IF expr = nullptr THEN << >>
    ELSE IF h[expr].treeType = TREE_TYPE_BINARY_EXPRESSION THEN
        destroyExpressionTreeWithChildren(h, h[expr].left) \o << expr >>
    ELSE << expr >>

(* destroyExpressionTreeWithChildren: the nodes it deletes, in the order   *)
(* of the delete expressions (left subtree, right subtree, the node).      *)
destroyExpressionTreeWithChildren(h, expr) ==
    IF expr = nullptr THEN << >>
    ELSE IF h[expr].treeType = TREE_TYPE_BINARY_EXPRESSION THEN
        destroyExpressionTreeWithChildren(h, h[expr].left)
        \o destroyExpressionTreeWithChildren(h, h[expr].right)
        \o << expr >>
    ELSE << expr >>

\* the delete counts after the nodes of sequence order have been deleted
Deleted(fr, order) ==
    [i \in 1..Len(fr) |->
        fr[i] + Cardinality({ k \in 1..Len(order) : order[k] = i })]

\* deleting the nodes of order deletes a node a second time
DeletesTwice(fr, order) ==
    \E k \in 1..Len(order) :
        \/ fr[order[k]] > 0
        \/ \E j \in 1..Len(order) : j # k /\ order[j] = order[k]

-----------------------------------------------------------------------------
(* State.                                                                  *)
(*   s        the global Scanner                                           *)
(*   lastOp   the Scanner member called last ("none" before any call)      *)
(*   called   the Scanner member the last step called ("none": it called   *)
(*            none)                                                        *)
(*   peeks    what each peekToken call since the last setBuffer/nextToken  *)
(*            returned (t), with currentCharacterIndex before and after it *)
(*   out      the lines printed by the last step                           *)
(*   s2, lastOp2, tok2, sync                                               *)
(*            a second Scanner value, the member called on it last, the    *)
(*            token it returned last, and whether both scanners have been  *)
(*            given the same buffer and the same calls since               *)
(*   stack    the call stack of the parser: frames [pc, a, tok], top first *)
(*   ret      the value returned by the last parse procedure that returned *)
(*   heap     the nodes allocated by new, in allocation order (id = index) *)
(*   freed    how many times each node has been deleted                    *)
(*   phase, tree, result   testExpressions' position and its locals        *)
(*   uaf      a node was read or deleted after it had been deleted         *)
(*   steps    the number of steps testExpressions and the parser have      *)
(*            taken on the input                                           *)
VARIABLES s, lastOp, called, peeks, out, s2, lastOp2, tok2, sync,
          stack, ret, heap, freed, phase, tree, result, uaf, steps

scanVars == << s, lastOp, called, peeks, out >>
twinVars == << s2, lastOp2, tok2, sync >>
parseVars == << stack, ret, heap, freed, phase, tree, result, uaf, steps >>
vars == << s, lastOp, called, peeks, out, s2, lastOp2, tok2, sync,
           stack, ret, heap, freed, phase, tree, result, uaf, steps >>

NoToken == [name |-> << >>, type |-> TOKEN_TYPE_NULL]

-----------------------------------------------------------------------------
(* Calls of the Scanner's members on the global scanner s.                 *)

\* s.setBuffer(buf)
CallSetBuffer(buf) ==
    /\ s' = setBuffer(s, buf)
    /\ lastOp' = "setBuffer"
    /\ called' = "setBuffer"
    /\ peeks' = << >>
    /\ out' = << >>

\* s.peekToken()
CallPeekToken ==
    LET r == peekToken(s) IN
    /\ s' = r.sc
    /\ lastOp' = "peekToken"
    /\ called' = "peekToken"
    /\ peeks' = Append(peeks, [t |-> r.t,
                               before |-> s.currentCharacterIndex,
                               after |-> r.sc.currentCharacterIndex])
    /\ out' = r.out

\* s.nextToken()
CallNextToken ==
    /\ s' = nextToken(s)
    /\ lastOp' = "nextToken"
    /\ called' = "nextToken"
    /\ peeks' = << >>
    /\ out' = << >>

\* the token the last peekToken call returned
LastToken == IF peeks = << >> THEN NoToken ELSE peeks[Len(peeks)].t

-----------------------------------------------------------------------------
(* Input texts.                                                            *)

\* every character sequence over alphabet A of length at most n
Strings(A, n) == UNION { [1..k -> A] : k \in 0..n }

\* ' ', \t, '1', 'a', '+', '?'
ScanAlphabet == { 32, 9, 49, 97, 43, 63 }

\* "123abc"
Text123abc == << 49, 50, 51, 97, 98, 99 >>

\* "123abc", "1.5e", "7_ 2", "\n1", 0x01 "1", "12 ) 3"
ScanScenarios ==
    { Text123abc, << 49, 46, 53, 101 >>, << 55, 95, 32, 50 >>, << 10, 49 >>,
      << 1, 49 >>, << 49, 50, 32, 41, 32, 51 >> }

ScanTexts == Strings(ScanAlphabet, MaxScanLen) \cup ScanScenarios

-----------------------------------------------------------------------------
(* The initial state: the scanners zero-initialised, nothing allocated.    *)
Init ==
    /\ s = ScannerInit
    /\ lastOp = "none"
    /\ called = "none"
    /\ peeks = << >>
    /\ out = << >>
    /\ s2 = ScannerInit
    /\ lastOp2 = "none"
    /\ tok2 = NoToken
    /\ sync = FALSE
    /\ stack = << >>
    /\ ret = nullptr
    /\ heap = << >>
    /\ freed = << >>
    /\ phase = "start"
    /\ tree = nullptr
    /\ result = U64(0)
    /\ uaf = FALSE
    /\ steps = 0

-----------------------------------------------------------------------------
(* SpecScan: the Scanner driven by an arbitrary caller that keeps the      *)
(* protocol (a nextToken only after a peekToken issued since the last      *)
(* nextToken or setBuffer) and loads a first and then a second source, as  *)
(* two rounds of testExpressions' loop do.                                 *)

ScanSetBuffer ==
    /\ phase \in { "start", "first" }
    /\ \E buf \in ScanTexts : CallSetBuffer(buf)
    /\ phase' = IF phase = "start" THEN "first" ELSE "second"
    /\ UNCHANGED << twinVars, stack, ret, heap, freed, tree, result, uaf,
                    steps >>

ScanPeekToken ==
    /\ Len(peeks) < MaxPeeks
    /\ CallPeekToken
    /\ UNCHANGED << twinVars, parseVars >>

ScanNextToken ==
    /\ peeks # << >>
    /\ CallNextToken
    /\ UNCHANGED << twinVars, parseVars >>

ScanNext == ScanSetBuffer \/ ScanPeekToken \/ ScanNextToken

SpecScan == Init /\ [][ScanNext]_vars


-----------------------------------------------------------------------------
(* Inputs of the parser.                                                   *)

\* '1', '+', '-', '*', '(', ')', ' ', \t, '?', 'a'
Alphabet == { 49, 43, 45, 42, 40, 41, 32, 9, 63, 97 }

\* the literal of the i-th operand of a generated expression:
\* "10", "2", "3", "4", ...
Literal(i) == IF i = 1 THEN << 49, 48 >> ELSE << 48 + i >>

\* the i-th operand: its literal, or "(" literal "-2)"
Operand(i, paren) ==
    IF paren THEN << 40 >> \o Literal(i) \o << 45, 50, 41 >> ELSE Literal(i)

\* the expressions of n operators from '+', '-', '*' between such operands
RECURSIVE ExprTexts(_)
ExprTexts(n) ==
    IF n = 0 THEN { Operand(1, b) : b \in BOOLEAN }
    ELSE { e \o << op >> \o Operand(n + 1, b) :
             e \in ExprTexts(n - 1), op \in { 43, 45, 42 }, b \in BOOLEAN }

\* "4 + 3 * 8"
Text1 == << 52, 32, 43, 32, 51, 32, 42, 32, 56 >>
\* "(4 + 3) * 8"
Text2 == << 40, 52, 32, 43, 32, 51, 41, 32, 42, 32, 56 >>
\* "(4 + 3 * 8) + 8 * 8 + (4 * 4)"
Text3 == << 40, 52, 32, 43, 32, 51, 32, 42, 32, 56, 41, 32, 43, 32, 56, 32,
            42, 32, 56, 32, 43, 32, 40, 52, 32, 42, 32, 52, 41 >>
\* "10 - 2 - 3"
Text10m2m3 == << 49, 48, 32, 45, 32, 50, 32, 45, 32, 51 >>
\* "10 - 2 - 3 - 4"
Text10m2m3m4 == << 49, 48, 32, 45, 32, 50, 32, 45, 32, 51, 32, 45, 32, 52 >>
\* "(4 + 3"
TextUnclosed == << 40, 52, 32, 43, 32, 51 >>
\* "4\t+\n3", "2 * (3 - (1 + 1", "6 * (2 * 3 * 4 5", "((7 - 9) * 2",
\* "1 + 2 * (3 - 4"
Scenarios ==
    { Text1, Text2, Text3, Text10m2m3, Text10m2m3m4, TextUnclosed,
      Text123abc,
      << 52, 9, 43, 10, 51 >>,
      << 50, 32, 42, 32, 40, 51, 32, 45, 32, 40, 49, 32, 43, 32, 49 >>,
      << 54, 32, 42, 32, 40, 50, 32, 42, 32, 51, 32, 42, 32, 52, 32, 53 >>,
      << 40, 40, 55, 32, 45, 32, 57, 41, 32, 42, 32, 50 >>,
      << 49, 32, 43, 32, 50, 32, 42, 32, 40, 51, 32, 45, 32, 52 >> }

Inputs ==
    Strings(Alphabet, MaxInputLen)
    \cup UNION { ExprTexts(n) : n \in 0..MaxOps }
    \cup Scenarios

-----------------------------------------------------------------------------
(* The parser.  Each procedure is cut into steps at its calls of the       *)
(* Scanner and of the parse procedures; a frame of stack holds the step    *)
(* the procedure is at (pc), its local tree pointer (a; `tree` in          *)
(* parsePrimary), its local token (tok; `t` in parsePrimary), and the      *)
(* value currentCharacterIndex had when the procedure was called (at).     *)

Frame(pc, at) == [pc |-> pc, a |-> nullptr, tok |-> NoToken, at |-> at]

Top == stack[1]

AtPc(pc) == phase = "parsing" /\ stack # << >> /\ stack[1].pc = pc

\* a step that calls no member of the Scanner
NoScannerCall ==
    /\ called' = "none"
    /\ UNCHANGED << s, lastOp, peeks >>

\* parseExpression: `return parseAdditiveExpression();`
parseExpression ==
    /\ AtPc("E_entry")
    /\ stack' = << [Top EXCEPT !.pc = "A_entry"] >> \o Tail(stack)
    /\ NoScannerCall
    /\ out' = << >>
    /\ steps' = steps + 1
    /\ UNCHANGED << ret, heap, freed, uaf, phase, tree, result, twinVars >>

\* parsePrimary: `Token t = s.peekToken();`
parsePrimary_peek ==
    /\ AtPc("P_peek")
    /\ CallPeekToken
    /\ stack' = << [Top EXCEPT !.pc = "P_match", !.tok = peekToken(s).t] >>
                 \o Tail(stack)
    /\ steps' = steps + 1
    /\ UNCHANGED << ret, heap, freed, uaf, phase, tree, result, twinVars >>

\* parsePrimary: an integer is consumed and returned as a literal; a '(' is
\* consumed and parseExpression() is called; any other token is a syntax
\* error and nullptr is returned
parsePrimary_match ==
    /\ AtPc("P_match")
    /\ IF matchToken(Top.tok, TOKEN_TYPE_INTEGER) THEN
           /\ CallNextToken
           /\ heap' = Append(heap, createLiteralTree(Top.tok))
           /\ freed' = Append(freed, 0)
           /\ stack' = Tail(stack)
           /\ ret' = Len(heap) + 1
       ELSE IF matchToken(Top.tok, TOKEN_TYPE_LPAREN) THEN
           /\ CallNextToken
           /\ stack' = << Frame("E_entry", nextToken(s).currentCharacterIndex),
                          [Top EXCEPT !.pc = "P_inner"] >> \o Tail(stack)
           /\ UNCHANGED << ret, heap, freed >>
       ELSE
           /\ NoScannerCall
           /\ out' = << "Syntax error in" >>
           /\ stack' = Tail(stack)
           /\ ret' = nullptr
           /\ UNCHANGED << heap, freed >>
    /\ steps' = steps + 1
    /\ UNCHANGED << uaf, phase, tree, result, twinVars >>

\* parsePrimary: `tree = parseExpression();` has returned;
\* `t = s.peekToken()`
parsePrimary_inner ==
    /\ AtPc("P_inner")
    /\ CallPeekToken
    /\ stack' = << [Top EXCEPT !.pc = "P_close", !.a = ret,
                               !.tok = peekToken(s).t] >> \o Tail(stack)
    /\ steps' = steps + 1
    /\ UNCHANGED << ret, heap, freed, uaf, phase, tree, result, twinVars >>

\* parsePrimary: `t.type != TOKEN_TYPE_RPAREN`: the error is printed, the
\* inner tree destroyed and nullptr returned; otherwise the ')' is consumed
\* and the inner tree returned
parsePrimary_close ==
    /\ AtPc("P_close")
    /\ IF Top.tok.type # TOKEN_TYPE_RPAREN THEN
           /\ NoScannerCall
           /\ out' = << "Expected right parantheses match" >>
           /\ freed' = Deleted(freed,
                               destroyExpressionTreeWithChildren(heap, Top.a))
           /\ uaf' = (uaf \/ DeletesTwice(freed,
                               destroyExpressionTreeWithChildren(heap, Top.a)))
           /\ ret' = nullptr
       ELSE
           /\ CallNextToken
           /\ ret' = Top.a
           /\ UNCHANGED << freed, uaf >>
    /\ stack' = Tail(stack)
    /\ steps' = steps + 1
    /\ UNCHANGED << heap, phase, tree, result, twinVars >>

\* parseMultiplicativeExpression: `Tree *a = parsePrimary();` is called
parseMultiplicativeExpression_entry ==
    /\ AtPc("M_entry")
    /\ stack' = << Frame("P_peek", s.currentCharacterIndex),
                   [Top EXCEPT !.pc = "M_peek1"] >> \o Tail(stack)
    /\ NoScannerCall
    /\ out' = << >>
    /\ steps' = steps + 1
    /\ UNCHANGED << ret, heap, freed, uaf, phase, tree, result, twinVars >>

\* parseMultiplicativeExpression: a takes the value returned; `auto tok = s.peekToken()`
parseMultiplicativeExpression_peek1 ==
    /\ AtPc("M_peek1")
    /\ CallPeekToken
    /\ stack' = << [Top EXCEPT !.pc = "M_match1", !.a = ret,
                               !.tok = peekToken(s).t] >> \o Tail(stack)
    /\ steps' = steps + 1
    /\ UNCHANGED << ret, heap, freed, uaf, phase, tree, result, twinVars >>

\* parseMultiplicativeExpression: `matchFactor(tok)`; if so `s.nextToken()` and parsePrimary()
\* is called for the right operand, otherwise `return a`
parseMultiplicativeExpression_match1 ==
    /\ AtPc("M_match1")
    /\ IF matchFactor(Top.tok) THEN
           /\ CallNextToken
           /\ stack' = << Frame("P_peek", nextToken(s).currentCharacterIndex),
                          [Top EXCEPT !.pc = "M_bin1"] >> \o Tail(stack)
           /\ UNCHANGED ret
       ELSE
           /\ NoScannerCall
           /\ out' = << >>
           /\ stack' = Tail(stack)
           /\ ret' = Top.a
    /\ steps' = steps + 1
    /\ UNCHANGED << heap, freed, uaf, phase, tree, result, twinVars >>

\* parseMultiplicativeExpression: `a = createBinaryExpressionTree(tok.type, a, <returned>)`;
\* `tok = s.peekToken()`
parseMultiplicativeExpression_bin1 ==
    /\ AtPc("M_bin1")
    /\ heap' = Append(heap,
                      createBinaryExpressionTree(Top.tok.type, Top.a, ret))
    /\ freed' = Append(freed, 0)
    /\ CallPeekToken
    /\ stack' = << [Top EXCEPT !.pc = "M_match2", !.a = Len(heap) + 1,
                               !.tok = peekToken(s).t] >> \o Tail(stack)
    /\ steps' = steps + 1
    /\ UNCHANGED << ret, uaf, phase, tree, result, twinVars >>

\* parseMultiplicativeExpression: `matchFactor(tok)`; if so `s.nextToken()` and
\* parseMultiplicativeExpression() is called for the right operand, otherwise `return a`
parseMultiplicativeExpression_match2 ==
    /\ AtPc("M_match2")
    /\ IF matchFactor(Top.tok) THEN
           /\ CallNextToken
           /\ stack' = << Frame("M_entry", nextToken(s).currentCharacterIndex),
                          [Top EXCEPT !.pc = "M_bin2"] >> \o Tail(stack)
           /\ UNCHANGED ret
       ELSE
           /\ NoScannerCall
           /\ out' = << >>
           /\ stack' = Tail(stack)
           /\ ret' = Top.a
    /\ steps' = steps + 1
    /\ UNCHANGED << heap, freed, uaf, phase, tree, result, twinVars >>

\* parseMultiplicativeExpression: `a = createBinaryExpressionTree(tok.type, a, <returned>)`;
\* `return a`
parseMultiplicativeExpression_bin2 ==
    /\ AtPc("M_bin2")
    /\ heap' = Append(heap,
                      createBinaryExpressionTree(Top.tok.type, Top.a, ret))
    /\ freed' = Append(freed, 0)
    /\ NoScannerCall
    /\ out' = << >>
    /\ stack' = Tail(stack)
    /\ ret' = Len(heap) + 1
    /\ steps' = steps + 1
    /\ UNCHANGED << uaf, phase, tree, result, twinVars >>

\* parseAdditiveExpression: `Tree *a = parseMultiplicativeExpression();` is called
parseAdditiveExpression_entry ==
    /\ AtPc("A_entry")
    /\ stack' = << Frame("M_entry", s.currentCharacterIndex),
                   [Top EXCEPT !.pc = "A_peek1"] >> \o Tail(stack)
    /\ NoScannerCall
    /\ out' = << >>
    /\ steps' = steps + 1
    /\ UNCHANGED << ret, heap, freed, uaf, phase, tree, result, twinVars >>

\* parseAdditiveExpression: a takes the value returned; `auto tok = s.peekToken()`
parseAdditiveExpression_peek1 ==
    /\ AtPc("A_peek1")
    /\ CallPeekToken
    /\ stack' = << [Top EXCEPT !.pc = "A_match1", !.a = ret,
                               !.tok = peekToken(s).t] >> \o Tail(stack)
    /\ steps' = steps + 1
    /\ UNCHANGED << ret, heap, freed, uaf, phase, tree, result, twinVars >>

\* parseAdditiveExpression: `matchTerm(tok)`; if so `s.nextToken()` and parseMultiplicativeExpression()
\* is called for the right operand, otherwise `return a`
parseAdditiveExpression_match1 ==
    /\ AtPc("A_match1")
    /\ IF matchTerm(Top.tok) THEN
           /\ CallNextToken
           /\ stack' = << Frame("M_entry", nextToken(s).currentCharacterIndex),
                          [Top EXCEPT !.pc = "A_bin1"] >> \o Tail(stack)
           /\ UNCHANGED ret
       ELSE
           /\ NoScannerCall
           /\ out' = << >>
           /\ stack' = Tail(stack)
           /\ ret' = Top.a
    /\ steps' = steps + 1
    /\ UNCHANGED << heap, freed, uaf, phase, tree, result, twinVars >>

\* parseAdditiveExpression: `a = createBinaryExpressionTree(tok.type, a, <returned>)`;
\* `tok = s.peekToken()`
parseAdditiveExpression_bin1 ==
    /\ AtPc("A_bin1")
    /\ heap' = Append(heap,
                      createBinaryExpressionTree(Top.tok.type, Top.a, ret))
    /\ freed' = Append(freed, 0)
    /\ CallPeekToken
    /\ stack' = << [Top EXCEPT !.pc = "A_match2", !.a = Len(heap) + 1,
                               !.tok = peekToken(s).t] >> \o Tail(stack)
    /\ steps' = steps + 1
    /\ UNCHANGED << ret, uaf, phase, tree, result, twinVars >>

\* parseAdditiveExpression: `matchTerm(tok)`; if so `s.nextToken()` and
\* parseAdditiveExpression() is called for the right operand, otherwise `return a`
parseAdditiveExpression_match2 ==
    /\ AtPc("A_match2")
    /\ IF matchTerm(Top.tok) THEN
           /\ CallNextToken
           /\ stack' = << Frame("A_entry", nextToken(s).currentCharacterIndex),
                          [Top EXCEPT !.pc = "A_bin2"] >> \o Tail(stack)
           /\ UNCHANGED ret
       ELSE
           /\ NoScannerCall
           /\ out' = << >>
           /\ stack' = Tail(stack)
           /\ ret' = Top.a
    /\ steps' = steps + 1
    /\ UNCHANGED << heap, freed, uaf, phase, tree, result, twinVars >>

\* parseAdditiveExpression: `a = createBinaryExpressionTree(tok.type, a, <returned>)`;
\* `return a`
parseAdditiveExpression_bin2 ==
    /\ AtPc("A_bin2")
    /\ heap' = Append(heap,
                      createBinaryExpressionTree(Top.tok.type, Top.a, ret))
    /\ freed' = Append(freed, 0)
    /\ NoScannerCall
    /\ out' = << >>
    /\ stack' = Tail(stack)
    /\ ret' = Len(heap) + 1
    /\ steps' = steps + 1
    /\ UNCHANGED << uaf, phase, tree, result, twinVars >>

-----------------------------------------------------------------------------
(* testExpressions, for one input: the source is loaded, parsed, the tree  *)
(* evaluated and destroyed.                                                *)

\* some node reachable from expr in h has been deleted
RECURSIVE ReadsDeleted(_, _, _)
ReadsDeleted(h, fr, expr) ==
    /\ expr # nullptr
    /\ \/ fr[expr] > 0
       \/ /\ h[expr].treeType = TREE_TYPE_BINARY_EXPRESSION
          /\ \/ ReadsDeleted(h, fr, h[expr].left)
             \/ ReadsDeleted(h, fr, h[expr].right)

\* `s.setBuffer(i.buffer);`
testSetBuffer ==
    /\ phase = "start"
    /\ \E buf \in Inputs : CallSetBuffer(buf)
    /\ phase' = "loaded"
    /\ steps' = steps + 1
    /\ UNCHANGED << stack, ret, heap, freed, uaf, tree, result, twinVars >>

\* `Tree *tree = parseExpression();` is called
testParse ==
    /\ phase = "loaded"
    /\ stack' = << Frame("E_entry", s.currentCharacterIndex) >>
    /\ phase' = "parsing"
    /\ NoScannerCall
    /\ out' = << >>
    /\ steps' = steps + 1
    /\ UNCHANGED << ret, heap, freed, uaf, tree, result, twinVars >>

\* parseExpression has returned;
\* `std::uint64_t result = evaluateConstantExpressionTree(tree);`
testEvaluate ==
    /\ phase = "parsing"
    /\ stack = << >>
    /\ tree' = ret
    /\ result' = evaluateConstantExpressionTree(heap, ret)
    /\ uaf' = (uaf \/ ReadsDeleted(heap, freed, ret))
    /\ phase' = "evaluated"
    /\ NoScannerCall
    /\ out' = << "Test" >>
    /\ steps' = steps + 1
    /\ UNCHANGED << stack, ret, heap, freed, twinVars >>

\* `destroyExpressionTreeWithChildren(tree);`
testDestroy ==
    /\ phase = "evaluated"
    /\ freed' = Deleted(freed, destroyExpressionTreeWithChildren(heap, tree))
    /\ uaf' = (uaf \/ DeletesTwice(freed,
                          destroyExpressionTreeWithChildren(heap, tree)))
    /\ phase' = "done"
    /\ NoScannerCall
    /\ out' = << >>
    /\ steps' = steps + 1
    /\ UNCHANGED << stack, ret, heap, tree, result, twinVars >>

Next ==
    \/ testSetBuffer \/ testParse \/ testEvaluate \/ testDestroy
    \/ parseExpression
    \/ parsePrimary_peek \/ parsePrimary_match
    \/ parsePrimary_inner \/ parsePrimary_close
    \/ parseMultiplicativeExpression_entry
    \/ parseMultiplicativeExpression_peek1
    \/ parseMultiplicativeExpression_match1
    \/ parseMultiplicativeExpression_bin1
    \/ parseMultiplicativeExpression_match2
    \/ parseMultiplicativeExpression_bin2
    \/ parseAdditiveExpression_entry
    \/ parseAdditiveExpression_peek1
    \/ parseAdditiveExpression_match1
    \/ parseAdditiveExpression_bin1
    \/ parseAdditiveExpression_match2
    \/ parseAdditiveExpression_bin2

Spec == Init /\ [][Next]_vars

\* the program is sequential: a step that can be taken is taken
FairSpec == Spec /\ WF_vars(Next)

-----------------------------------------------------------------------------
(* SpecTwin: two Scanner values.  Each is first used on its own (any       *)
(* source, any peekToken/nextToken calls that keep the protocol); then     *)
(* both are given the same source by setBuffer and receive the same calls. *)

\* ' ', \t, '1', '+'
TwinAlphabet == { 32, 9, 49, 43 }

TwinTexts == Strings(TwinAlphabet, MaxTwinLen)

TwinOwnSetBuffer ==
    /\ ~sync
    /\ \E buf \in TwinTexts :
         \/ /\ CallSetBuffer(buf)
            /\ UNCHANGED << s2, lastOp2, tok2 >>
         \/ /\ s2' = setBuffer(s2, buf)
            /\ lastOp2' = "setBuffer"
            /\ UNCHANGED << tok2, scanVars >>
    /\ UNCHANGED << sync, parseVars >>

TwinOwnPeekToken ==
    /\ ~sync
    /\ \/ /\ Len(peeks) < MaxPeeks
          /\ CallPeekToken
          /\ UNCHANGED << s2, lastOp2, tok2 >>
       \/ /\ s2' = peekToken(s2).sc
          /\ tok2' = peekToken(s2).t
          /\ lastOp2' = "peekToken"
          /\ UNCHANGED scanVars
    /\ UNCHANGED << sync, parseVars >>

TwinOwnNextToken ==
    /\ ~sync
    /\ \/ /\ lastOp = "peekToken"
          /\ CallNextToken
          /\ out' = << >>
          /\ UNCHANGED << s2, lastOp2, tok2 >>
       \/ /\ lastOp2 = "peekToken"
          /\ s2' = nextToken(s2)
          /\ lastOp2' = "nextToken"
          /\ UNCHANGED << tok2, scanVars >>
    /\ UNCHANGED << sync, parseVars >>

\* setBuffer(text) on both
TwinSetBuffer ==
    /\ ~sync
    /\ \E buf \in TwinTexts :
         /\ CallSetBuffer(buf)
         /\ s2' = setBuffer(s2, buf)
    /\ lastOp2' = "setBuffer"
    /\ sync' = TRUE
    /\ UNCHANGED << tok2, parseVars >>

\* peekToken() on both
TwinPeekToken ==
    /\ sync
    /\ Len(peeks) < MaxPeeks
    /\ CallPeekToken
    /\ s2' = peekToken(s2).sc
    /\ tok2' = peekToken(s2).t
    /\ lastOp2' = "peekToken"
    /\ UNCHANGED << sync, parseVars >>

\* nextToken() on both, a peekToken having been issued since the last
\* nextToken or setBuffer
TwinNextToken ==
    /\ sync
    /\ lastOp = "peekToken"
    /\ CallNextToken
    /\ s2' = nextToken(s2)
    /\ lastOp2' = "nextToken"
    /\ UNCHANGED << tok2, sync, parseVars >>

TwinNext ==
    \/ TwinOwnSetBuffer \/ TwinOwnPeekToken \/ TwinOwnNextToken
    \/ TwinSetBuffer \/ TwinPeekToken \/ TwinNextToken

SpecTwin == Init /\ [][TwinNext]_vars

-----------------------------------------------------------------------------
(* Properties of the Scanner.                                              *)

Digits == 48..57
Letters == (97..122) \cup (65..90)
\* the characters of a run G: letters, digits, '_' and '.'
GarbageChars == Letters \cup Digits \cup { 95, 46 }
\* space, tab, newline
Whitespace == { 32, 9, 10 }

\* the end (0-based, exclusive) of the maximal run of characters of set S
\* that starts at 0-based position p of buf
RunEnd(buf, p, S) ==
    CHOOSE j \in p..Len(buf) :
        /\ \A k \in (p + 1)..j : buf[k] \in S
        /\ j = Len(buf) \/ buf[j + 1] \notin S

\* position p of buf starts a maximal digit run D that is immediately
\* followed by a non-empty run G
MalformedAt(buf, p) ==
    /\ p < Len(buf)
    /\ buf[p + 1] \in Digits
    /\ p = 0 \/ buf[p] \notin Digits
    /\ RunEnd(buf, p, Digits) < Len(buf)
    /\ buf[RunEnd(buf, p, Digits) + 1] \in GarbageChars

(* C3: peekToken is idempotent.  All the peekToken calls made with no      *)
(* nextToken or setBuffer in between returned the same token (same type,   *)
(* same name) and each left currentCharacterIndex at the value it had      *)
(* before the first of them.                                               *)
C3_PeekIdempotent ==
    \A i \in 1..Len(peeks) :
        /\ peeks[i].t = peeks[1].t
        /\ peeks[i].before = peeks[1].before
        /\ peeks[i].after = peeks[1].before
        /\ s.currentCharacterIndex = peeks[1].before

\* three peeks in a row of an integer that is followed by further input
C3_Witness ==
    /\ Len(peeks) >= 3
    /\ peeks[1].t.type = TOKEN_TYPE_INTEGER
    /\ s.nextCharacterIndex > s.currentCharacterIndex
    /\ s.nextCharacterIndex < Len(s.buffer)

(* C8: a malformed literal.  When peekToken is called at the start of a    *)
(* maximal digit run D that is immediately followed by a non-empty run G   *)
(* of letters, digits, '_' or '.', it returns one Integer token whose name *)
(* is exactly D and prints exactly one line, and the nextToken that        *)
(* follows sets currentCharacterIndex to the position just past G.         *)
C8_MalformedLiteral ==
    [][ /\ ( /\ lastOp' = "peekToken"
             /\ MalformedAt(s'.buffer, peeks'[Len(peeks')].before) )
           => LET buf == s'.buffer
                  p == peeks'[Len(peeks')].before
                  d == RunEnd(buf, p, Digits)
              IN /\ peeks'[Len(peeks')].t =
                       [name |-> SubSeq(buf, p + 1, d),
                        type |-> TOKEN_TYPE_INTEGER]
                 /\ Len(out') = 1
        /\ ( /\ lastOp = "peekToken"
             /\ lastOp' = "nextToken"
             /\ MalformedAt(s.buffer, peeks[Len(peeks)].before) )
           => LET p == peeks[Len(peeks)].before
                  d == RunEnd(s.buffer, p, Digits)
              IN /\ s'.currentCharacterIndex =
                       RunEnd(s.buffer, d, GarbageChars)
                 /\ s'.buffer = s.buffer
      ]_vars

\* "123abc" scanned: the cursor is past "abc" after the nextToken
C8_Witness ==
    /\ s.buffer = Text123abc
    /\ lastOp = "nextToken"
    /\ s.currentCharacterIndex = 6

(* C4: peekToken skips every run of leading whitespace (space, tab,        *)
(* newline) at the committed position: the token it returns on W followed  *)
(* by T has the type and the name of the token it returns on T alone.      *)
C4_SkipsLeadingWhitespace ==
    lastOp = "peekToken" =>
        LET p == peeks[Len(peeks)].before
            q == IF p >= Len(s.buffer) THEN p
                 ELSE RunEnd(s.buffer, p, Whitespace)
            T == SubSeq(s.buffer, q + 1, Len(s.buffer))
        IN peeks[Len(peeks)].t = peekToken(setBuffer(ScannerInit, T)).t

(* C5: setBuffer resets the scanner fully.  Two scanners with different    *)
(* histories that are given the same source and then the same calls        *)
(* return the same tokens and reach the same committed positions.          *)
C5_SetBufferResets ==
    sync =>
        /\ s.currentCharacterIndex = s2.currentCharacterIndex
        /\ lastOp = "peekToken" => peeks[Len(peeks)].t = tok2


-----------------------------------------------------------------------------
(* Properties of the parser, the evaluator and the destructor.  The        *)
(* reference definitions below read the input text on their own: tokens    *)
(* are maximal digit runs and the characters + - * ( ), separated by       *)
(* spaces.                                                                 *)

Finished == phase \in { "evaluated", "done" }

\* a token of the reference reading: k is 0 for a number (name: its digits)
\* and the character for an operator or a parenthesis; -1: no token
RECURSIVE RefLex(_, _)
RefLex(txt, i) ==
    IF i > Len(txt) THEN << >>
    ELSE IF txt[i] = 32 THEN RefLex(txt, i + 1)
    ELSE IF txt[i] \in Digits THEN
        LET j == RunEnd(txt, i - 1, Digits)
        IN << [k |-> 0, name |-> SubSeq(txt, i, j)] >> \o RefLex(txt, j + 1)
    ELSE IF txt[i] \in { 43, 45, 42, 40, 41 } THEN
        << [k |-> txt[i], name |-> << >>] >> \o RefLex(txt, i + 1)
    ELSE << [k |-> -1, name |-> << >>] >>

\* the number a digit sequence denotes, modulo 2^64
RECURSIVE RefValue(_)
RefValue(ds) ==
    IF ds = << >> THEN U64(0)
    ELSE U64Add(U64Mul(RefValue(SubSeq(ds, 1, Len(ds) - 1)), U64(10)),
                U64(ds[Len(ds)] - 48))

RefFail == [ok |-> FALSE, v |-> U64(0), i |-> 0, ops |-> 0]

RefOps(lvl) == IF lvl = 1 THEN { 42 } ELSE { 43, 45 }

RefApply(op, a, b) ==
    IF op = 43 THEN U64Add(a, b)
    ELSE IF op = 45 THEN U64Sub(a, b)
    ELSE U64Mul(a, b)

Max(a, b) == IF a > b THEN a ELSE b

(* Standard evaluation of the tokens from position i at level lvl          *)
(* (0: a primary, 1: a product, 2: a sum), left to right within a level;   *)
(* ops is the greatest number of operators joined in one chain of one      *)
(* level anywhere in what was read.  RefRest continues a chain whose value *)
(* so far is acc and which has n operators so far.                         *)
RECURSIVE RefEval(_, _, _), RefRest(_, _, _, _, _, _)
RefEval(toks, i, lvl) ==
    IF i > Len(toks) THEN RefFail
    ELSE IF lvl = 0 THEN
        IF toks[i].k = 0 THEN
            [ok |-> TRUE, v |-> RefValue(toks[i].name), i |-> i + 1, ops |-> 0]
        ELSE IF toks[i].k = 40 THEN
            LET r == RefEval(toks, i + 1, 2)
            IN IF r.ok /\ r.i <= Len(toks) /\ toks[r.i].k = 41
               THEN [r EXCEPT !.i = r.i + 1]
               ELSE RefFail
        ELSE RefFail
    ELSE
        LET x == RefEval(toks, i, lvl - 1)
        IN IF x.ok THEN RefRest(toks, x.i, lvl, x.v, 0, x.ops) ELSE RefFail

RefRest(toks, i, lvl, acc, n, ops) ==
    IF i <= Len(toks) /\ toks[i].k \in RefOps(lvl) THEN
        LET y == RefEval(toks, i + 1, lvl - 1)
        IN IF y.ok
           THEN RefRest(toks, y.i, lvl, RefApply(toks[i].k, acc, y.v), n + 1,
                        Max(ops, y.ops))
           ELSE RefFail
    ELSE [ok |-> TRUE, v |-> acc, i |-> i, ops |-> Max(ops, n)]

\* the standard value of a text; ok: the text is a well-formed expression
Ref(txt) ==
    LET toks == RefLex(txt, 1)
        r == RefEval(toks, 1, 2)
    IN [r EXCEPT !.ok = r.ok /\ r.i = Len(toks) + 1]

(* C1: for every well-formed expression of integer literals, + - * and     *)
(* balanced parentheses in which no chain of one precedence level has more *)
(* than two operators, the result of evaluating the parsed tree is the     *)
(* standard value (modulo 2^64); "4 + 3 * 8" gives 28, "(4 + 3) * 8" gives *)
(* 56 and "(4 + 3 * 8) + 8 * 8 + (4 * 4)" gives 108.                       *)
C1_StandardValue ==
    Finished =>
        /\ (Ref(s.buffer).ok /\ Ref(s.buffer).ops <= 2)
              => result = Ref(s.buffer).v
        /\ s.buffer = Text1 => result = U64(28)
        /\ s.buffer = Text2 => result = U64(56)
        /\ s.buffer = Text3 => result = U64(108)

\* "(4 + 3 * 8) + 8 * 8 + (4 * 4)" has been evaluated to 108
C1_Witness ==
    /\ phase = "done"
    /\ s.buffer = Text3
    /\ Ref(s.buffer).ok /\ Ref(s.buffer).ops = 2
    /\ result = U64(108)

\* the tree below expr as a value: a literal's name, or a binary node's
\* operator type and subtrees
RECURSIVE TreeOf(_, _)
TreeOf(h, expr) ==
    IF expr = nullptr THEN [null |-> TRUE]
    ELSE IF h[expr].treeType = TREE_TYPE_LITERAL
    THEN [lit |-> h[expr].token.name]
    ELSE [op |-> h[expr].operatorType,
          l |-> TreeOf(h, h[expr].left), r |-> TreeOf(h, h[expr].right)]

ShapeFail == [ok |-> FALSE, t |-> [null |-> TRUE], i |-> 0]

ShapeOp(c) ==
    IF c = 43 THEN TOKEN_TYPE_ADD
    ELSE IF c = 45 THEN TOKEN_TYPE_MINUS
    ELSE TOKEN_TYPE_MUL

(* The grouping of a chain x1 op1 x2 op2 x3 op3 ... of level lvl that      *)
(* starts at token i: x1 alone, Binary(op1, x1, x2), or                    *)
(* Binary(op2, Binary(op1, x1, x2), R) with R the grouping of the whole    *)
(* remainder x3 op3 ... at the same level.                                 *)
RECURSIVE Shape(_, _, _)
Shape(toks, i, lvl) ==
    IF i > Len(toks) THEN ShapeFail
    ELSE IF lvl = 0 THEN
        IF toks[i].k = 0 THEN
            [ok |-> TRUE, t |-> [lit |-> toks[i].name], i |-> i + 1]
        ELSE IF toks[i].k = 40 THEN
            LET r == Shape(toks, i + 1, 2)
            IN IF r.ok /\ r.i <= Len(toks) /\ toks[r.i].k = 41
               THEN [r EXCEPT !.i = r.i + 1]
               ELSE ShapeFail
        ELSE ShapeFail
    ELSE
        LET x1 == Shape(toks, i, lvl - 1)
            op1 == x1.i
            x2 == Shape(toks, op1 + 1, lvl - 1)
            pair == [op |-> ShapeOp(toks[op1].k), l |-> x1.t, r |-> x2.t]
            op2 == x2.i
            R == Shape(toks, op2 + 1, lvl)
        IN IF ~x1.ok THEN ShapeFail
           ELSE IF ~(op1 <= Len(toks) /\ toks[op1].k \in RefOps(lvl)) THEN x1
           ELSE IF ~x2.ok THEN ShapeFail
           ELSE IF ~(op2 <= Len(toks) /\ toks[op2].k \in RefOps(lvl))
           THEN [ok |-> TRUE, t |-> pair, i |-> op2]
           ELSE IF ~R.ok THEN ShapeFail
           ELSE [ok |-> TRUE,
                 t |-> [op |-> ShapeOp(toks[op2].k), l |-> pair, r |-> R.t],
                 i |-> R.i]

(* C2: a chain x1 op1 x2 op2 x3 op3 ... of one precedence level is built   *)
(* as Binary(op2, Binary(op1, x1, x2), R), R being the parse of the whole  *)
(* remainder at the same level; so "10 - 2 - 3" is (10-2)-3 = 5 and        *)
(* "10 - 2 - 3 - 4" is (10-2)-(3-4) = 9.                                   *)
C2_ChainGrouping ==
    Finished =>
        /\ LET toks == RefLex(s.buffer, 1)
               g == Shape(toks, 1, 2)
           IN (g.ok /\ g.i = Len(toks) + 1) => TreeOf(heap, tree) = g.t
        /\ s.buffer = Text10m2m3 => result = U64(5)
        /\ s.buffer = Text10m2m3m4 => result = U64(9)

\* "10 - 2 - 3 - 4" has been parsed: the root's right operand is 3 - 4
C2_Witness ==
    /\ phase = "done"
    /\ s.buffer = Text10m2m3m4
    /\ tree # nullptr
    /\ TreeOf(heap, heap[tree].right) =
           [op |-> TOKEN_TYPE_MINUS, l |-> [lit |-> << 51 >>],
            r |-> [lit |-> << 52 >>]]
    /\ result = U64(9)

\* the nodes of the tree below expr
RECURSIVE Nodes(_, _)
Nodes(h, expr) ==
    IF expr = nullptr THEN { }
    ELSE IF h[expr].treeType = TREE_TYPE_BINARY_EXPRESSION
    THEN { expr } \cup Nodes(h, h[expr].left) \cup Nodes(h, h[expr].right)
    ELSE { expr }

(* C6: when parsePrimary has consumed '(' and parsed the inner expression  *)
(* and the next token is not ')', it prints the missing-right-parenthesis  *)
(* error, deletes every node of the inner tree (and no other), does not    *)
(* consume the offending token and returns nullptr; and parsing "(4 + 3"   *)
(* yields a null tree.                                                     *)
C6_MissingRightParen ==
    [][ /\ (AtPc("P_close") /\ stack[1].tok.type # TOKEN_TYPE_RPAREN)
           => /\ out' = << "Expected right parantheses match" >>
              /\ ret' = nullptr
              /\ called' = "none"
              /\ s' = s
              /\ Len(stack') = Len(stack) - 1
              /\ \A n \in 1..Len(heap) :
                    freed'[n] = IF n \in Nodes(heap, stack[1].a)
                                THEN 1 ELSE freed[n]
        /\ (phase' = "evaluated" /\ s'.buffer = TextUnclosed)
           => tree' = nullptr
      ]_vars

\* "(4 + 3" has been parsed: three nodes were built and deleted, the tree
\* is null
C6_Witness ==
    /\ phase = "evaluated"
    /\ s.buffer = TextUnclosed
    /\ tree = nullptr
    /\ Len(heap) = 3
    /\ \A n \in 1..Len(heap) : freed[n] = 1

\* the steps a parse of a text of n characters takes at most
StepBound(n) == 14 * n + 13

PcsPrimary == { "P_peek", "P_match", "P_inner", "P_close" }
PcsMultiplicative ==
    { "M_entry", "M_peek1", "M_match1", "M_bin1", "M_match2", "M_bin2" }
PcsAdditive ==
    { "E_entry", "A_entry", "A_peek1", "A_match1", "A_bin1", "A_match2",
      "A_bin2" }

SameProcedure(f, g) ==
    \E P \in { PcsPrimary, PcsMultiplicative, PcsAdditive } :
        f.pc \in P /\ g.pc \in P

\* some step can be taken
CanStep ==
    \/ phase \in { "start", "loaded", "evaluated" }
    \/ /\ phase = "parsing"
       /\ \/ stack = << >>
          \/ stack[1].pc \in PcsPrimary \cup PcsMultiplicative \cup PcsAdditive

(* C7: for every input, loading, parsing and evaluating terminates and     *)
(* yields an integer: the run is never stuck before the end, takes at most *)
(* StepBound(length of the input) steps, and a parse procedure is entered  *)
(* again while it is active only with the committed cursor further on than *)
(* at its active entry.                                                    *)
C7_Terminates ==
    /\ phase # "done" => CanStep
    /\ steps <= StepBound(Len(s.buffer))
    /\ \A i, j \in 1..Len(stack) :
          (i < j /\ SameProcedure(stack[i], stack[j]))
              => stack[i].at > stack[j].at
    /\ Finished =>
          /\ Len(result) = U64Bytes
          /\ \A i \in 1..U64Bytes : result[i] \in 0..(U64Base - 1)

\* "(?)" has been parsed and evaluated
C7_Witness ==
    /\ phase = "done"
    /\ s.buffer = << 40, 63, 41 >>
    /\ stack = << >>
    /\ steps > 0

(* C9: every nextToken call of the parser is immediately preceded, with no *)
(* other Scanner call in between, by a peekToken call at the same          *)
(* committed position that returned a recognised token (Integer, Plus,     *)
(* Minus, Star, LParen, RParen); nextToken is never called after a peek    *)
(* that returned End or Invalid, nor twice for one peek.                   *)
C9_AdvanceAfterPeek ==
    [][ called' = "nextToken"
        => /\ lastOp = "peekToken"
           /\ peeks # << >>
           /\ peeks[Len(peeks)].before = s.currentCharacterIndex
           /\ peeks[Len(peeks)].after = s.currentCharacterIndex
           /\ peeks[Len(peeks)].t.type \in
                 { TOKEN_TYPE_INTEGER, TOKEN_TYPE_ADD, TOKEN_TYPE_MINUS,
                   TOKEN_TYPE_MUL, TOKEN_TYPE_LPAREN, TOKEN_TYPE_RPAREN }
           /\ s'.currentCharacterIndex = s.nextCharacterIndex
           /\ s'.currentCharacterIndex > s.currentCharacterIndex
      ]_vars

\* a '-' has just been consumed inside a parenthesis
C9_Witness ==
    /\ phase = "parsing"
    /\ called = "nextToken"
    /\ Len(stack) > 4
    /\ stack[2].pc = "A_bin1"
    /\ stack[2].tok.type = TOKEN_TYPE_MINUS

\* the number of child links of nodes not yet deleted that point at n
ParentLinks(h, fr, n) ==
    Cardinality({ p \in 1..Len(h) :
                    /\ fr[p] = 0
                    /\ h[p].treeType = TREE_TYPE_BINARY_EXPRESSION
                    /\ h[p].left = n })
    + Cardinality({ p \in 1..Len(h) :
                    /\ fr[p] = 0
                    /\ h[p].treeType = TREE_TYPE_BINARY_EXPRESSION
                    /\ h[p].right = n })

(* C10: tree nodes are single-owner and deleted exactly once.  When        *)
(* parseExpression has returned, every node allocated and not yet deleted  *)
(* is reachable from the returned root, the root has no parent link and    *)
(* every other such node exactly one; after                                *)
(* destroyExpressionTreeWithChildren(root) every allocated node has been   *)
(* deleted exactly once, and no node is read or deleted after its delete.  *)
C10_SingleOwner ==
    /\ ~uaf
    /\ \A n \in 1..Len(heap) : freed[n] <= 1
    /\ (phase = "parsing" /\ stack = << >>) =>
          /\ { n \in 1..Len(heap) : freed[n] = 0 } = Nodes(heap, ret)
          /\ \A n \in Nodes(heap, ret) :
                ParentLinks(heap, freed, n) = IF n = ret THEN 0 ELSE 1
    /\ phase = "done" => \A n \in 1..Len(heap) : freed[n] = 1

\* a parse in which an error path deleted nodes and a tree was still
\* returned, after the destroy
C10_Witness ==
    /\ phase = "done"
    /\ tree # nullptr
    /\ Cardinality(Nodes(heap, tree)) >= 3
    /\ Cardinality(Nodes(heap, tree)) < Len(heap)
    /\ \A n \in 1..Len(heap) : freed[n] = 1

=============================================================================
